---- MODULE Spec2Model ----
(***************************************************************************)
(* Model of cosyvoice_gui.py: the text segmenter process_text_by_lines,    *)
(* the worker SynthesisThread.run and the CosyVoiceGUI event handlers.     *)
(*                                                                         *)
(* A text is a sequence of one-character strings.                          *)
(***************************************************************************)
EXTENDS Integers, Sequences, FiniteSets, TLC

VARIABLES
    text,       \* the argument of a call of process_text_by_lines
    segments,   \* its result
    called,     \* whether the call has been made
    threads,    \* the SynthesisThread objects, in order of creation
    queue,      \* signals emitted by the workers, not yet delivered to their slots
    fs,         \* the files of the output directory: path -> file
    clock,      \* time.time() in whole seconds, as last read
    gui         \* the CosyVoiceGUI window: its attributes and its widgets

seg_vars == <<text, segments, called>>

run_vars == <<threads, queue, fs, clock>>

vars == <<text, segments, called, threads, queue, fs, clock, gui>>

----------------------------------------------------------------------------
(* Bounds of the model *)

\* number of newline-separated lines of an input text of the segmenter
MaxLines == 3

\* number of lines of the text given to a SynthesisThread (one segment each)
MaxRunLines == 2

\* largest number of samples an inference call returns
MaxSamples == 2

\* last second the clock is read at
MaxClock == 1

\* number of SynthesisThread objects the window creates
MaxRuns == 2

----------------------------------------------------------------------------
(* Characters and strings *)

\* the process without a window: a SynthesisThread used on its own
NoWindow == [alive |-> TRUE]

NL == "\n"

\* str.isspace for the characters of the model's alphabet
IsSpace(c) == c \in {" ", "\t", "\r", "\n"}

Rep(c, n) == [k \in 1..n |-> c]

SetMin(S) == CHOOSE x \in S : \A y \in S : x <= y

SetMax(S) == CHOOSE x \in S : \A y \in S : y <= x

\* str.strip(): drop the leading and the trailing whitespace
strip(s) ==
    LET keep == {k \in 1..Len(s) : ~IsSpace(s[k])}
    IN  IF keep = {} THEN <<>> ELSE SubSeq(s, SetMin(keep), SetMax(keep))

\* str.split(sep) for a one-character separator: always at least one piece
split(s, sep) ==
    LET at == {k \in 1..Len(s) : s[k] = sep}
        n == Cardinality(at)
        \* position of the j-th separator, 0 before the first, Len+1 after the last
        pos(j) == IF j = 0 THEN 0
                  ELSE IF j = n + 1 THEN Len(s) + 1
                  ELSE CHOOSE p \in at : Cardinality({q \in at : q < p}) = j - 1
    IN  [j \in 1..(n + 1) |-> SubSeq(s, pos(j - 1) + 1, pos(j) - 1)]

\* "\n".join(parts)
RECURSIVE join(_)
join(parts) ==
    IF parts = <<>> THEN <<>>
    ELSE IF Len(parts) = 1 THEN parts[1]
    ELSE parts[1] \o <<NL>> \o join(Tail(parts))

----------------------------------------------------------------------------
(* process_text_by_lines *)

max_length == 150

\* mutant: the joining newline is not counted
Exceeds_NoNewline(current_segment, line) ==
    Len(current_segment) + Len(line) > max_length

\* mutant: a segment is closed one character early
Exceeds_Early(current_segment, line) ==
    Len(current_segment) + Len(line) + 1 >= max_length

\* line 46: would appending the line go over the limit
Exceeds(current_segment, line) ==
    Len(current_segment) + Len(line) + 1 > max_length

\* mutant: empty lines are not skipped
SkipLine_Never(line) == FALSE

\* line 42: "if not line: continue"
SkipLine(line) == line = <<>>

\* mutant: the closed segment is dropped
CloseSegment_Drop(segs, current_segment) == segs

\* lines 47-48: "if current_segment: segments.append(current_segment)"
CloseSegment(segs, current_segment) ==
    IF current_segment # <<>> THEN Append(segs, current_segment) ELSE segs

\* one iteration of the loop of lines 40-55 on the state (segments, current_segment)
LineStep(st, rawline) ==
    LET line == strip(rawline)
    IN  IF SkipLine(line) THEN st
        ELSE IF Exceeds(st.current_segment, line)
             THEN [segments |-> CloseSegment(st.segments, st.current_segment),
                   current_segment |-> line]
             ELSE IF st.current_segment # <<>>
                  THEN [st EXCEPT !.current_segment = @ \o <<NL>> \o line]
                  ELSE [st EXCEPT !.current_segment = line]

RECURSIVE ForLines(_, _, _)
ForLines(lines, k, st) ==
    IF k > Len(lines) THEN st
    ELSE ForLines(lines, k + 1, LineStep(st, lines[k]))

process_text_by_lines(t) ==
    LET lines == split(strip(t), NL)
        st == ForLines(lines, 1, [segments |-> <<>>, current_segment |-> <<>>])
    IN  IF st.current_segment # <<>>
        THEN Append(st.segments, st.current_segment)
        ELSE st.segments

----------------------------------------------------------------------------
(* Inputs of the segmenter: texts of up to MaxLines lines.  A line is a run *)
(* of letters, bare or wrapped in whitespace; the lengths sit on both sides *)
(* of the limit and of half the limit.                                      *)

LineLens == {0, 1, 74, 75, 151}

PaddedLens == {0, 75, 151}

InputLines == {Rep("a", n) : n \in LineLens}
              \cup {<<" ">> \o Rep("a", n) \o <<"\r">> : n \in PaddedLens}

RECURSIVE TextsOf(_)
TextsOf(n) ==
    IF n = 0 THEN {<<>>}
    ELSE IF n = 1 THEN InputLines
    ELSE {t \o <<NL>> \o l : t \in TextsOf(n - 1), l \in InputLines}

Texts == UNION {TextsOf(n) : n \in 0..MaxLines}

SegInit ==
    /\ text \in Texts
    /\ segments = <<>>
    /\ called = FALSE
    /\ threads = <<>>
    /\ queue = <<>>
    /\ fs = <<>>
    /\ clock = 0
    /\ gui = NoWindow

\* the call process_text_by_lines(text)
Segment ==
    /\ ~called
    /\ segments' = process_text_by_lines(text)
    /\ called' = TRUE
    /\ UNCHANGED <<text, run_vars, gui>>

SegNext == Segment

SegSpec == SegInit /\ [][SegNext]_vars

----------------------------------------------------------------------------
(* Properties of process_text_by_lines, checked under SegSpec *)

HasNL(s) == \E k \in 1..Len(s) : s[k] = NL

\* the newline-delimited lines of the input, as typed
RawLines == split(text, NL)

\* the lines of the input that are not blank, each stripped, in order
StrippedLines ==
    SelectSeq([j \in DOMAIN RawLines |-> strip(RawLines[j])], LAMBDA l : l # <<>>)

RECURSIVE LinesOf(_)
\* the lines of all the segments, in order
LinesOf(segs) ==
    IF segs = <<>> THEN <<>> ELSE split(segs[1], NL) \o LinesOf(Tail(segs))

\* C1: every segment has at most 150 characters, unless it is exactly one
\* stripped input line that is itself longer than 150; a segment of two or
\* more lines never exceeds 150, the joining newlines included.
C1_SegmentBound ==
    called =>
        \A k \in DOMAIN segments :
            LET s == segments[k]
            IN  /\ HasNL(s) => Len(s) <= max_length
                /\ Len(s) > max_length =>
                       /\ ~HasNL(s)
                       /\ \E j \in DOMAIN RawLines : strip(RawLines[j]) = s

C1_Witness ==
    /\ called
    /\ \E k \in DOMAIN segments : HasNL(segments[k]) /\ Len(segments[k]) = max_length
    /\ \E k \in DOMAIN segments : Len(segments[k]) > max_length

\* C2 (as claimed): the segments joined by newlines are exactly the non-empty
\* lines of the input, unaltered, joined by newlines.
C2_Original ==
    called => join(segments) = join(SelectSeq(RawLines, LAMBDA l : l # <<>>))

\* C2 (amended): the segments joined by newlines are the non-blank lines of the
\* input, each stripped of its leading and trailing whitespace, in their
\* original order, joined by newlines; the lines of the segments are exactly
\* those lines, so none is lost, duplicated, reordered or split.
C2_Reconstruct ==
    called =>
        /\ join(segments) = join(StrippedLines)
        /\ LinesOf(segments) = StrippedLines

C2_Witness ==
    /\ called
    /\ Len(segments) >= 2
    /\ Len(StrippedLines) > Len(segments)
    /\ \E j \in DOMAIN RawLines : RawLines[j] # <<>> /\ strip(RawLines[j]) # RawLines[j]

\* C3: segmentation is greedy: the first line of a segment did not fit at the
\* end of the segment before it.
C3_Greedy ==
    called =>
        \A k \in 1..(Len(segments) - 1) :
            Len(segments[k]) + 1 + Len(split(segments[k + 1], NL)[1]) > max_length

C3_Witness ==
    /\ called
    /\ Len(segments) >= 2
    /\ \E k \in 1..(Len(segments) - 1) : HasNL(segments[k]) /\ Len(segments[k]) < max_length

\* C4: no segment is empty, no segment contains an empty or whitespace-only
\* line, and a text of blank lines only gives no segment at all.
C4_NoBlank ==
    called =>
        /\ \A k \in DOMAIN segments :
               /\ segments[k] # <<>>
               /\ \A j \in DOMAIN split(segments[k], NL) :
                      strip(split(segments[k], NL)[j]) # <<>>
        /\ (\A k \in 1..Len(text) : IsSpace(text[k])) => segments = <<>>

C4_Witness ==
    /\ called
    /\ segments # <<>>
    /\ \E j \in 2..(Len(RawLines) - 1) : strip(RawLines[j]) = <<>>

C4_WitnessBlankText ==
    /\ called
    /\ text # <<>>
    /\ \A k \in 1..Len(text) : IsSpace(text[k])
    /\ segments = <<>>

----------------------------------------------------------------------------
(* Audio buffers: what result['tts_speech'] is.  A buffer is a torch tensor *)
(* or a numpy array, of shape [T] or [1, T]; its data are kept flattened in *)
(* row-major order.  The sample <<i, k>> is the k-th sample returned for    *)
(* the i-th segment.                                                        *)

None == "None"

\* a file path: a directory and a name; NoFile is the None given for a path
File(dir, name) == [dir |-> dir, name |-> name]

NoFile == File(None, None)

\* "if prompt_file": neither None nor the empty string
Falsy(f) == f.name \in {None, ""}

\* what a model returns: the kind and the number of dimensions of its buffers
Models == {[type |-> ty, ndim |-> d] : ty \in {"tensor", "ndarray"}, d \in {1, 2}}

NoBuffer == [type |-> "none", shape |-> <<>>, data |-> <<>>]

Speech(model, i, T) ==
    [type |-> model.type,
     shape |-> IF model.ndim = 2 THEN <<1, T>> ELSE <<T>>,
     data |-> [k \in 1..T |-> <<i, k>>]]

RECURSIVE SumLast(_)
\* the sum of the last dimensions of the buffers
SumLast(bufs) ==
    IF bufs = <<>> THEN 0
    ELSE bufs[1].shape[Len(bufs[1].shape)] + SumLast(Tail(bufs))

RECURSIVE CatData_Reversed(_)
\* mutant: the buffers are joined last to first
CatData_Reversed(bufs) ==
    IF bufs = <<>> THEN <<>> ELSE CatData_Reversed(Tail(bufs)) \o bufs[1].data

RECURSIVE CatData(_)
\* the data of torch.cat / np.concatenate: the buffers' data, first to last
CatData(bufs) ==
    IF bufs = <<>> THEN <<>> ELSE bufs[1].data \o CatData(Tail(bufs))

\* lines 139-148: the combined buffer, or the exception of the concatenation
Combine(bufs) ==
    IF Len(bufs) = 1 THEN [ok |-> TRUE, value |-> bufs[1]]
    ELSE IF bufs[1].type = "tensor"
    THEN \* torch.cat(..., dim=1 if len(shape) > 1 else 0)
         IF \A k \in DOMAIN bufs : bufs[k].type = "tensor" /\ Len(bufs[k].shape) = Len(bufs[1].shape)
         THEN [ok |-> TRUE,
               value |-> [type |-> "tensor",
                          shape |-> IF Len(bufs[1].shape) > 1
                                    THEN <<bufs[1].shape[1], SumLast(bufs)>>
                                    ELSE <<SumLast(bufs)>>,
                          data |-> CatData(bufs)]]
         ELSE [ok |-> FALSE, value |-> NoBuffer]
    ELSE \* np.concatenate(..., axis=0)
         IF \E k \in DOMAIN bufs : bufs[k].type # "ndarray" \/ Len(bufs[k].shape) # Len(bufs[1].shape)
         THEN [ok |-> FALSE, value |-> NoBuffer]
         ELSE IF Len(bufs[1].shape) = 1
         THEN [ok |-> TRUE,
               value |-> [type |-> "ndarray", shape |-> <<SumLast(bufs)>>, data |-> CatData(bufs)]]
         ELSE IF \A k \in DOMAIN bufs : bufs[k].shape[2] = bufs[1].shape[2]
         THEN [ok |-> TRUE,
               value |-> [type |-> "ndarray",
                          shape |-> <<Len(bufs), bufs[1].shape[2]>>,
                          data |-> CatData(bufs)]]
         ELSE [ok |-> FALSE, value |-> NoBuffer]

\* line 151: shape[-1] of a tensor, len() of an array
total_len(speech) ==
    IF speech.type = "tensor" THEN speech.shape[Len(speech.shape)] ELSE speech.shape[1]

\* lines 183-187: the array handed to sf.write
Squeezed(speech) ==
    LET a == IF speech.type = "tensor"
             THEN [speech EXCEPT !.type = "ndarray",
                                 !.shape = SelectSeq(speech.shape, LAMBDA d : d # 1)]
             ELSE speech
    IN  IF Len(a.shape) > 1 /\ a.shape[1] = 1
        THEN [a EXCEPT !.shape = Tail(a.shape)]
        ELSE a

----------------------------------------------------------------------------
(* Files.  A path of the output directory is output_dir/<mode>_<timestamp>. *)

output_dir == "synthesis_outputs"

OutputPath(dir, mode, timestamp) == [dir |-> dir, mode |-> mode, timestamp |-> timestamp]

NoPath == [dir |-> None, mode |-> None, timestamp |-> -1]

exists(files, path) == path \in DOMAIN files

getsize(files, path) == files[path].size

\* what sf.write can do: write the file, raise, or leave no file or an empty one
WriteOutcomes == {"ok", "raise", "empty", "missing"}

\* sf.write(output_path, speech, sample_rate), writing for the thread t
sf_write(files, path, a, wr, t) ==
    IF wr = "ok"
    THEN (path :> [size |-> 44 + Len(a.data), shape |-> a.shape, data |-> a.data, by |-> t]) @@ files
    ELSE IF wr = "empty"
    THEN (path :> [size |-> 0, shape |-> <<>>, data |-> <<>>, by |-> t]) @@ files
    ELSE files

----------------------------------------------------------------------------
(* Signals *)

Progress(m) == [sig |-> "progress", arg |-> m]

Error(m) == [sig |-> "error", arg |-> m]

Finished(path) == [sig |-> "finished", arg |-> path]

Terminal(s) == s.sig \in {"error", "finished"}

RECURSIVE Queued(_, _)
\* the signals among msgs that the window queues for a slot, tagged with their
\* sender; update_status only writes to the log pane, which is not modelled,
\* so that progress signals are recorded in emitted and not queued
Queued(t, msgs) ==
    IF msgs = <<>> THEN <<>>
    ELSE (IF Terminal(msgs[1])
          THEN <<[from |-> t, sig |-> msgs[1].sig, arg |-> msgs[1].arg]>>
          ELSE <<>>) \o Queued(t, Tail(msgs))

\* the signals of one step reach the slots only when these are connected
Post(th, t, msgs) ==
    IF th.receiver THEN queue \o Queued(t, msgs) ELSE queue

----------------------------------------------------------------------------
(* SynthesisThread *)

Modes == {"zero_shot", "cross_lingual", "instruct"}

NoSpeech == [loaded |-> FALSE, wav |-> NoFile]

\* __init__, lines 70-79, and the locals of run; calls records the inference
\* calls of the run and emitted the signals of the run, in order
SynthesisThread(model, mode, txt, prompt_file, prompt_text, instruct_text, dir) ==
    [model |-> model, mode |-> mode, text |-> txt, prompt_file |-> prompt_file,
     prompt_text |-> prompt_text, instruct_text |-> instruct_text,
     output_dir |-> dir, output_path |-> NoPath,
     receiver |-> FALSE,
     pc |-> "run", timestamp |-> -1, prompt_speech_16k |-> NoSpeech,
     text_segments |-> <<>>, i |-> 0, audio_segments |-> <<>>,
     calls |-> <<>>, emitted |-> <<>>, raised |-> None]

\* a thread object that has finished and that nothing refers to any more
Collected ==
    [SynthesisThread([type |-> "none", ndim |-> 0], None, <<>>, NoFile, <<>>, <<>>, None)
        EXCEPT !.pc = "done"]

\* the objects that stay: a thread used on its own, a running thread (its run
\* method holds it) and the window's synthesis_thread
Referenced(th, t, current) == ~th.receiver \/ th.pc # "done" \/ t = current

\* the thread objects once the window refers to the thread current
Collect(ths, current) ==
    [t \in DOMAIN ths |-> IF Referenced(ths[t], t, current) THEN ths[t] ELSE Collected]

\* the thread after a step that emitted msgs and went on to pc
Step(th, pc, msgs) == [th EXCEPT !.pc = pc, !.emitted = @ \o msgs]

\* mutant: the except clause swallows the exception
Raised_Silent(th, msgs, what) == [Step(th, "done", msgs) EXCEPT !.raised = what]

\* line 178-179: an exception anywhere in run, raised by the call named what
Raised(th, msgs, what) ==
    [Step(th, "done", msgs \o <<Error("exception")>>) EXCEPT !.raised = what]

\* the thread the window refers to (self.synthesis_thread), 0 when there is none
Current == IF "synthesis_thread" \in DOMAIN gui THEN gui.synthesis_thread ELSE 0

\* line 86: int(time.time()); run() is the only reader of the clock, and the
\* clock has not gone back since it was last read
Time == clock..MaxClock

\* lines 83-104: the output directory and path, the reference audio, the segments
RunBegin(t) ==
    /\ gui.alive
    /\ t \in DOMAIN threads
    /\ threads[t].pc = "run"
    /\ \E makedirs_ok \in BOOLEAN, load_wav_ok \in BOOLEAN, timestamp \in Time :
        LET th == threads[t]
            th1 == [th EXCEPT !.timestamp = timestamp,
                              !.output_path = OutputPath(th.output_dir, th.mode, timestamp)]
            loading == IF Falsy(th.prompt_file) THEN <<>> ELSE <<Progress("load_wav")>>
            th2 == [th1 EXCEPT !.prompt_speech_16k =
                        IF Falsy(th.prompt_file) THEN NoSpeech
                        ELSE [loaded |-> TRUE, wav |-> th.prompt_file]]
            segs == process_text_by_lines(th.text)
            th3 == [th2 EXCEPT !.text_segments = segs, !.i = 1, !.audio_segments = <<>>]
            next == IF ~makedirs_ok THEN Raised(th, <<>>, "makedirs")
                    ELSE IF ~Falsy(th.prompt_file) /\ ~load_wav_ok THEN Raised(th1, loading, "load_wav")
                    ELSE Step(th3, "loop", loading \o <<Progress(<<"segments", Len(segs)>>)>>)
        IN  /\ threads' = Collect([threads EXCEPT ![t] = next], Current)
            /\ queue' = Post(th, t, SubSeq(next.emitted, Len(th.emitted) + 1, Len(next.emitted)))
            /\ clock' = IF makedirs_ok THEN timestamp ELSE clock
    /\ UNCHANGED <<seg_vars, fs, gui>>

\* lines 112, 119, 126: the inference method of the mode, if it can be called
Method(th) ==
    IF ~th.prompt_speech_16k.loaded THEN None
    ELSE IF th.mode = "zero_shot" THEN "inference_zero_shot"
    ELSE IF th.mode = "cross_lingual" THEN "inference_cross_lingual"
    ELSE IF th.mode = "instruct" THEN "inference_instruct2"
    ELSE None

\* mutant: the transcript and the instruction change places
MethodArg_Swapped(th) ==
    IF th.mode = "zero_shot" THEN th.instruct_text
    ELSE IF th.mode = "instruct" THEN th.prompt_text
    ELSE <<>>

\* the second argument of the inference call, where there is one
MethodArg(th) ==
    IF th.mode = "zero_shot" THEN th.prompt_text
    ELSE IF th.mode = "instruct" THEN th.instruct_text
    ELSE <<>>

Pending == [kind |-> "pending", speech |-> NoBuffer]

\* mutant: lines 133-134 without the return
NoMethod_Continue(th, msgs) == [Step(th, "loop", msgs \o <<Error("mode")>>) EXCEPT !.i = @ + 1]

\* lines 132-134: no inference method for the mode or no reference audio
NoMethod(th, msgs) == Step(th, "done", msgs \o <<Error("mode")>>)

\* lines 107-131, first half: the progress message and the inference call for
\* the segment i, or the error of lines 132-134
RunCall(t) ==
    /\ gui.alive
    /\ t \in DOMAIN threads
    /\ threads[t].pc = "loop"
    /\ threads[t].i <= Len(threads[t].text_segments)
    /\ LET th == threads[t]
           msgs == <<Progress(<<"segment", th.i>>)>>
           call == [method |-> Method(th), seg |-> th.i, text |-> th.text_segments[th.i],
                    arg |-> MethodArg(th), prompt |-> th.prompt_speech_16k,
                    result |-> Pending]
           next == IF Method(th) = None THEN NoMethod(th, msgs)
                   ELSE [Step(th, "infer", msgs) EXCEPT !.calls = Append(@, call)]
       IN  /\ threads' = Collect([threads EXCEPT ![t] = next], Current)
           /\ queue' = Post(th, t, SubSeq(next.emitted, Len(th.emitted) + 1, Len(next.emitted)))
    /\ UNCHANGED <<seg_vars, fs, clock, gui>>

\* what an inference call can do: yield a first result of T samples, yield
\* nothing, or raise
InferenceResults(th) ==
    {[kind |-> "audio", speech |-> Speech(th.model, th.i, T)] : T \in 0..MaxSamples}
    \cup {[kind |-> "nothing", speech |-> NoBuffer], [kind |-> "raise", speech |-> NoBuffer]}

\* lines 113-131, second half: the first result, if any, is kept (j == 0, break)
AfterResult(th, r) ==
    LET th1 == [th EXCEPT !.calls[Len(th.calls)].result = r]
    IN  IF r.kind = "raise" THEN Raised(th1, <<>>, "inference")
        ELSE IF r.kind = "audio"
        THEN [Step(th1, "loop", <<>>) EXCEPT !.audio_segments = Append(@, r.speech), !.i = @ + 1]
        ELSE [Step(th1, "loop", <<>>) EXCEPT !.i = @ + 1]

\* the inference call of the segment i returns
RunReturn(t) ==
    /\ gui.alive
    /\ t \in DOMAIN threads
    /\ threads[t].pc = "infer"
    /\ \E r \in InferenceResults(threads[t]) :
        LET th == threads[t]
            next == AfterResult(th, r)
        IN  /\ threads' = Collect([threads EXCEPT ![t] = next], Current)
            /\ queue' = Post(th, t, SubSeq(next.emitted, Len(th.emitted) + 1, Len(next.emitted)))
    /\ UNCHANGED <<seg_vars, fs, clock, gui>>

\* mutant: the saved file is not looked at
FileInvalid_Unchecked(files, path) == FALSE

\* line 168: "not os.path.exists(path) or os.path.getsize(path) == 0"
FileInvalid(files, path) == ~exists(files, path) \/ getsize(files, path) = 0

\* mutant: a run without audio completes
NoAudio_Completes(th) == <<Progress("done"), Finished(th.output_path)>>

\* lines 171-173: no segment gave audio
NoAudio(th) == <<Error("no audio")>>

\* line 189: sf.write raises when told to (disk, permissions), on an array
\* without dimensions, whose shape[1] it cannot read, and on an array of
\* frames without channels
WriteRaises(a, wr) ==
    \/ wr = "raise"
    \/ a.shape = <<>>
    \/ Len(a.shape) > 1 /\ a.shape[2] = 0

\* lines 136-176 and _save_audio: the thread after the step and the files,
\* given what sf.write does
Merge(th, t, files, wr) ==
    IF th.audio_segments = <<>>
    THEN [next |-> Step(th, "done", NoAudio(th)), fs |-> files]
    ELSE LET c == Combine(th.audio_segments)
             merging == <<Progress("merging")>>
         IN  IF ~c.ok
             THEN [next |-> Raised(th, merging, "concatenate"), fs |-> files]
             ELSE IF total_len(c.value) = 0
             THEN [next |-> Step(th, "done", merging \o <<Error("zero length")>>), fs |-> files]
             ELSE IF WriteRaises(Squeezed(c.value), wr)
             THEN [next |-> Raised(th, merging, "save"), fs |-> files]
             ELSE LET files1 == sf_write(files, th.output_path, Squeezed(c.value), wr, t)
                      saved == merging \o <<Progress(<<"saved", th.output_path>>)>>
                  IN  IF FileInvalid(files1, th.output_path)
                      THEN [next |-> Step(th, "done", saved \o <<Error("invalid file")>>),
                            fs |-> files1]
                      ELSE [next |-> Step(th, "done", saved \o <<Progress("done"),
                                                               Finished(th.output_path)>>),
                            fs |-> files1]

\* lines 135-176: after the last segment
RunMerge(t) ==
    /\ gui.alive
    /\ t \in DOMAIN threads
    /\ threads[t].pc = "loop"
    /\ threads[t].i > Len(threads[t].text_segments)
    /\ \E wr \in WriteOutcomes :
        LET th == threads[t]
            m == Merge(th, t, fs, wr)
        IN  /\ threads' = Collect([threads EXCEPT ![t] = m.next], Current)
            /\ queue' = Post(th, t, SubSeq(m.next.emitted, Len(th.emitted) + 1, Len(m.next.emitted)))
            /\ fs' = m.fs
    /\ UNCHANGED <<seg_vars, clock, gui>>

----------------------------------------------------------------------------
(* One run of a SynthesisThread constructed with any arguments *)

\* texts of k lines that make one segment each, and blank texts
RunTexts ==
    {join([j \in 1..k |-> Rep("a", 76)]) : k \in 0..MaxRunLines}
    \cup {<<" ", NL, " ">>}

RunInit ==
    /\ text = <<>>
    /\ segments = <<>>
    /\ called = FALSE
    /\ \E model \in Models, mode \in Modes \cup {"sft"}, txt \in RunTexts,
          prompt_file \in {NoFile, File("", "ref.wav")},
          prompt_text \in {<<"p">>}, instruct_text \in {<<"i">>} :
          threads = <<SynthesisThread(model, mode, txt, prompt_file, prompt_text,
                                      instruct_text, output_dir)>>
    /\ queue = <<>>
    /\ fs = <<>>
    /\ clock = 0
    /\ gui = NoWindow

RunNext ==
    \/ RunBegin(1)
    \/ RunCall(1)
    \/ RunReturn(1)
    \/ RunMerge(1)

RunSpec == RunInit /\ [][RunNext]_vars

----------------------------------------------------------------------------
(* Properties of SynthesisThread.run, checked under RunSpec *)

Emitted(th, sig) == {k \in DOMAIN th.emitted : th.emitted[k].sig = sig}

\* the files the thread t has written
WrittenBy(t) == {path \in DOMAIN fs : fs[path].by = t}

\* C5 (as claimed): if the inference call of one segment yields no result, the
\* run ends with an error, emits no completion and writes no output file.
C5_AbortOnNoResult ==
    \A t \in DOMAIN threads :
        LET th == threads[t]
        IN  (\E k \in DOMAIN th.calls : th.calls[k].result.kind = "nothing") =>
                /\ Emitted(th, "finished") = {}
                /\ WrittenBy(t) = {}
                /\ th.pc = "done" => Emitted(th, "error") # {}

\* C6: a run whose text gives no segment emits an error and no completion,
\* calls no inference method and writes no file.
C6_ZeroSegments ==
    \A t \in DOMAIN threads :
        LET th == threads[t]
        IN  process_text_by_lines(th.text) = <<>> =>
                /\ th.calls = <<>>
                /\ Emitted(th, "finished") = {}
                /\ WrittenBy(t) = {}
                /\ th.pc = "done" => Emitted(th, "error") # {}

C6_Witness ==
    \E t \in DOMAIN threads :
        /\ threads[t].pc = "done"
        /\ threads[t].text # <<>>
        /\ threads[t].text_segments = <<>>
        /\ threads[t].prompt_speech_16k.loaded
        /\ threads[t].mode \in Modes
        /\ \E k \in DOMAIN threads[t].emitted : threads[t].emitted[k] = Error("no audio")

RECURSIVE ReturnedAudio(_)
\* the samples the inference calls returned, in the order of the calls
ReturnedAudio(calls) ==
    IF calls = <<>> THEN <<>>
    ELSE (IF calls[1].result.kind = "audio" THEN calls[1].result.speech.data ELSE <<>>)
         \o ReturnedAudio(Tail(calls))

\* C7: the segments are synthesized one at a time in segment order, and in a
\* successful run the saved audio is the returned buffers joined in that
\* order, so that the audio of a segment precedes that of every later one.
C7_InOrder ==
    \A t \in DOMAIN threads :
        LET th == threads[t]
        IN  /\ \A k \in DOMAIN th.calls :
                   /\ th.calls[k].seg = k
                   /\ th.calls[k].text = th.text_segments[k]
                   /\ k < Len(th.calls) => th.calls[k].result.kind # "pending"
            /\ Emitted(th, "finished") # {} =>
                   /\ exists(fs, th.output_path)
                   /\ fs[th.output_path].data = ReturnedAudio(th.calls)
                   /\ \A p, q \in DOMAIN fs[th.output_path].data :
                          p < q => fs[th.output_path].data[p][1] <= fs[th.output_path].data[q][1]

C7_Witness ==
    \E t \in DOMAIN threads :
        /\ Emitted(threads[t], "finished") # {}
        /\ Len(threads[t].audio_segments) >= 2
        /\ \A k \in DOMAIN threads[t].audio_segments : threads[t].audio_segments[k].data # <<>>
        /\ Len(fs[threads[t].output_path].data) >= 2

\* C8: at the moment a thread emits the completion, a file of non-zero size
\* exists at the path the signal carries, and that path is the one generated
\* for the run: output_dir/<mode>_<timestamp>.
C8_FileAtCompletion ==
    [][\A t \in DOMAIN threads :
          (Emitted(threads[t], "finished") = {} /\ Emitted(threads'[t], "finished") # {}) =>
              \A k \in Emitted(threads'[t], "finished") :
                  LET path == threads'[t].emitted[k].arg
                  IN  /\ exists(fs', path)
                      /\ getsize(fs', path) > 0
                      /\ path = threads'[t].output_path
                      /\ path = OutputPath(threads[t].output_dir, threads[t].mode,
                                           threads[t].timestamp)]_vars

C8_Witness ==
    \E t \in DOMAIN threads :
        /\ Emitted(threads[t], "finished") # {}
        /\ exists(fs, threads[t].output_path)
        /\ fs[threads[t].output_path].by = t
        /\ threads[t].timestamp = 1

\* C10: a run emits at most one terminal signal (error or finished), exactly
\* one once it has ended, and nothing after it.
C10_OneTerminal ==
    \A t \in DOMAIN threads :
        LET th == threads[t]
            terminal == {k \in DOMAIN th.emitted : Terminal(th.emitted[k])}
        IN  /\ Cardinality(terminal) <= 1
            /\ th.pc = "done" <=> Cardinality(terminal) = 1
            /\ \A k \in terminal : k = Len(th.emitted)

C10_Witness ==
    /\ \E t \in DOMAIN threads :
           /\ threads[t].pc = "done"
           /\ Emitted(threads[t], "finished") # {}
           /\ Cardinality(Emitted(threads[t], "progress")) >= 5


C10_WitnessError ==
    \E t \in DOMAIN threads :
        /\ threads[t].pc = "done"
        /\ \E k \in DOMAIN threads[t].emitted : threads[t].emitted[k] = Error("mode")

\* C11: a run in which a call raised (makedirs, load_wav, an inference
\* method, the concatenation, sf.write) has ended, its last signal is an error
\* and it has emitted no completion; and no segment's inference method is
\* called twice in a run.
C11_FailureIsError ==
    \A t \in DOMAIN threads :
        LET th == threads[t]
        IN  /\ th.raised # None =>
                   /\ th.pc = "done"
                   /\ th.emitted # <<>>
                   /\ th.emitted[Len(th.emitted)].sig = "error"
                   /\ Emitted(th, "finished") = {}
            /\ \A j, k \in DOMAIN th.calls : th.calls[j].seg = th.calls[k].seg => j = k

C11_Witness ==
    \E t \in DOMAIN threads :
        /\ threads[t].raised = "inference"
        /\ Len(threads[t].calls) = 2
        /\ threads[t].calls[1].result.kind = "audio"
        /\ threads[t].calls[2].result.kind = "raise"

C11_WitnessSave ==
    \E t \in DOMAIN threads :
        /\ threads[t].raised = "save"
        /\ Len(threads[t].audio_segments) = 2

\* what sf.write makes of an array: its first axis is the frames (the samples
\* in time), a second axis is the channels
Frames(file) == IF file.shape = <<>> THEN 0 ELSE file.shape[1]

Channels(file) == IF Len(file.shape) < 2 THEN 1 ELSE file.shape[2]

\* C14 (as claimed): in a successful run the saved audio has one channel and
\* as many samples in time as the buffers returned for the segments have
\* together.
C14_SampleCount ==
    \A t \in DOMAIN threads :
        LET th == threads[t]
        IN  (Emitted(th, "finished") # {} /\ exists(fs, th.output_path)) =>
                /\ Frames(fs[th.output_path]) = SumLast(th.audio_segments)
                /\ Channels(fs[th.output_path]) = 1

\* C15: every inference call of a run is to the entry point of the run's
\* mode, with the reference transcript (zero_shot) or the instruction
\* (instruct) and the audio loaded from the run's reference file, the same for
\* every segment; a run whose mode is none of the three, or without reference
\* file, calls no inference method, emits no completion and ends in an error.
C15_ModeEntryPoint ==
    \A t \in DOMAIN threads :
        LET th == threads[t]
        IN  /\ \A k \in DOMAIN th.calls :
                   LET c == th.calls[k]
                   IN  /\ th.mode = "zero_shot" =>
                              c.method = "inference_zero_shot" /\ c.arg = th.prompt_text
                       /\ th.mode = "cross_lingual" =>
                              c.method = "inference_cross_lingual" /\ c.arg = <<>>
                       /\ th.mode = "instruct" =>
                              c.method = "inference_instruct2" /\ c.arg = th.instruct_text
                       /\ c.prompt = [loaded |-> TRUE, wav |-> th.prompt_file]
                       /\ c.prompt = th.calls[1].prompt /\ c.arg = th.calls[1].arg
                       /\ c.method = th.calls[1].method
            /\ (th.mode \notin Modes \/ Falsy(th.prompt_file)) =>
                   /\ th.calls = <<>>
                   /\ Emitted(th, "finished") = {}
                   /\ th.pc = "done" => Emitted(th, "error") # {}

C15_Witness ==
    \E t \in DOMAIN threads :
        /\ threads[t].mode = "instruct"
        /\ Len(threads[t].calls) = 2
        /\ threads[t].calls[2].result.kind = "audio"

C15_WitnessNoMode ==
    \E t \in DOMAIN threads :
        /\ threads[t].mode \notin Modes
        /\ ~Falsy(threads[t].prompt_file)
        /\ threads[t].text_segments # <<>>
        /\ threads[t].pc = "done"
        /\ threads[t].raised = None

C15_WitnessNoReference ==
    \E t \in DOMAIN threads :
        /\ threads[t].mode = "zero_shot"
        /\ Falsy(threads[t].prompt_file)
        /\ threads[t].text_segments # <<>>
        /\ threads[t].pc = "done"
        /\ threads[t].raised = None

----------------------------------------------------------------------------
(* CosyVoiceGUI: the widgets.  The status bar and the log pane are displays *)
(* the program only writes to; of what the window shows, the model keeps    *)
(* the message box of the latest handler (dialog).                          *)

\* what CosyVoice2(...) returns: its inference methods give [1, T] tensors
CosyVoice2 == [type |-> "tensor", ndim |-> 2]

NoModel == [type |-> "none", ndim |-> 0]

\* the QMessageBox a handler shows
MessageBox(kind, msg) == [kind |-> kind, msg |-> msg]

NoDialog == MessageBox("none", "")

\* the media of the player: a synthesized file or a built-in sample
NoMedia == [output |-> NoPath, sample |-> NoFile]

OutputMedia(path) == [output |-> path, sample |-> NoFile]

SampleMedia(file) == [output |-> NoPath, sample |-> file]

\* lines 313-341: the voices found in AudioSamples, with their wav file and
\* the content of their txt file; the directory may hold no voice at all
VoiceDirs ==
    {("feijing" :> [wav |-> "01_feijing.wav", txt |-> <<"t">>])
        @@ ("other" :> [wav |-> "02_other.wav", txt |-> <<>>]),
     <<>>}

\* lines 344-347, 375-376: the voice the combo box shows first
FirstVoice(voice_mapping) ==
    IF "feijing" \in DOMAIN voice_mapping THEN "feijing"
    ELSE IF DOMAIN voice_mapping = {} THEN ""
    ELSE CHOOSE v \in DOMAIN voice_mapping : TRUE

\* lines 542, 647: os.path.join(os.path.dirname(__file__), "AudioSamples", wav)
SampleFile(wav) == File("app/AudioSamples", wav)

\* __init__ lines 196-199 and initUI: the window before the first load_model
initUI(voice_mapping) ==
    [alive |-> TRUE,
     model |-> NoModel, model_loaded |-> FALSE, current_audio_path |-> NoPath,
     player |-> [media |-> NoMedia, state |-> "stopped"], state_connected |-> FALSE,
     synthesis_thread |-> 0,
     load_model_btn |-> TRUE, synthesize_btn |-> FALSE, play_btn |-> FALSE, stop_btn |-> FALSE,
     mode |-> "cross_lingual", source |-> "custom",
     builtin_container |-> FALSE, custom_container |-> TRUE,
     prompt_text_container |-> TRUE, instruct_text_container |-> FALSE,
     voice_mapping |-> voice_mapping, builtin_combo |-> FirstVoice(voice_mapping),
     prompt_file_edit |-> File("", ""), prompt_text_edit |-> <<"p">>,
     dialog |-> NoDialog]

\* what the user types: a model path, a text to synthesize, an instruction,
\* a reference transcript
ModelPaths == {<<>>, <<"m">>}

GuiTexts == {<<>>, <<" ">>, <<" ", "a">>}

InstructTexts == {<<>>, <<"i">>}

PromptTexts == {<<>>, <<"p">>}

----------------------------------------------------------------------------
(* CosyVoiceGUI: the handlers, as functions of the window *)

\* mutant: a failed load forgets the model that was loaded
LoadModel_Forget(g, model_path_edit, loads) ==
    IF strip(model_path_edit) = <<>>
    THEN [g EXCEPT !.dialog = MessageBox("warning", "model path")]
    ELSE IF loads
    THEN [g EXCEPT !.model = CosyVoice2, !.model_loaded = TRUE, !.synthesize_btn = TRUE,
                   !.load_model_btn = TRUE,
                   !.dialog = MessageBox("information", "model loaded")]
    ELSE [g EXCEPT !.model = NoModel, !.model_loaded = FALSE, !.load_model_btn = TRUE,
                   !.dialog = MessageBox("critical", "model failed")]

\* lines 468-489
LoadModel(g, model_path_edit, loads) ==
    IF strip(model_path_edit) = <<>>
    THEN [g EXCEPT !.dialog = MessageBox("warning", "model path")]
    ELSE IF loads
    THEN [g EXCEPT !.model = CosyVoice2, !.model_loaded = TRUE, !.synthesize_btn = TRUE,
                   !.load_model_btn = TRUE,
                   !.dialog = MessageBox("information", "model loaded")]
    ELSE [g EXCEPT !.load_model_btn = TRUE,
                   !.dialog = MessageBox("critical", "model failed")]

\* lines 664-669
PlayerStateChanged(g, state) ==
    IF state = "stopped"
    THEN [g EXCEPT !.play_btn = TRUE, !.stop_btn = FALSE]
    ELSE g

\* the player goes to a state and says so to the slot line 633 connected
SetState(g, state) ==
    IF g.player.state = state THEN g
    ELSE LET g1 == [g EXCEPT !.player.state = state]
         IN  IF g.state_connected THEN PlayerStateChanged(g1, state) ELSE g1

\* player.setMedia(media); player.play(): a playing player stops first
PlayMedia(g, media) ==
    SetState([SetState(g, "stopped") EXCEPT !.player.media = media], "playing")

\* lines 620-633
PlayAudio(g, files) ==
    IF g.current_audio_path = NoPath \/ ~exists(files, g.current_audio_path)
    THEN [g EXCEPT !.dialog = MessageBox("warning", "no audio")]
    ELSE [PlayMedia(g, OutputMedia(g.current_audio_path))
             EXCEPT !.play_btn = FALSE, !.stop_btn = TRUE, !.state_connected = TRUE]

\* mutant: an error makes the window forget the audio it can play
ShowError_Forget(g, error_message) ==
    [g EXCEPT !.dialog = MessageBox("critical", error_message), !.synthesize_btn = TRUE,
              !.current_audio_path = NoPath, !.play_btn = FALSE]

\* mutant: line 609 is missing, the error leaves the button as it is
ShowError_Disabled(g, error_message) ==
    [g EXCEPT !.dialog = MessageBox("critical", error_message)]

\* lines 604-609
ShowError(g, error_message) ==
    [g EXCEPT !.dialog = MessageBox("critical", error_message), !.synthesize_btn = TRUE]

\* lines 611-618
SynthesisFinished(g, output_path, files) ==
    PlayAudio([g EXCEPT !.current_audio_path = output_path, !.synthesize_btn = TRUE,
                        !.play_btn = TRUE, !.dialog = NoDialog], files)

\* an exception leaves a slot: PyQt prints it and goes on, or aborts the process
Unhandled(g, aborts) ==
    [g EXCEPT !.dialog = MessageBox("traceback", "exception"), !.alive = ~aborts]

----------------------------------------------------------------------------
(* CosyVoiceGUI: the actions of the user, the slots and the player *)

Window(g) == /\ gui' = g
             /\ UNCHANGED <<seg_vars, threads, queue, fs, clock>>

\* the load button, lines 468-489
load_model ==
    /\ gui.alive /\ gui.load_model_btn
    /\ \E path \in ModelPaths, loads \in BOOLEAN :
           Window(LoadModel(gui, path, loads))

\* the file dialog of the custom audio, lines 491-501
select_prompt_file ==
    /\ gui.alive /\ gui.custom_container
    /\ \E file_path \in {File("", ""), File("", "custom.wav")} :
           Window(IF file_path.name # ""
                  THEN [gui EXCEPT !.prompt_file_edit = file_path, !.dialog = NoDialog]
                  ELSE [gui EXCEPT !.dialog = NoDialog])

\* the user picks a voice in the combo box (lines 310, 347)
select_voice ==
    /\ gui.alive /\ gui.builtin_container
    /\ \E v \in DOMAIN gui.voice_mapping :
           Window([gui EXCEPT !.builtin_combo = v])

\* the user types the reference transcript (lines 380-382)
edit_prompt_text ==
    /\ gui.alive /\ gui.custom_container /\ gui.prompt_text_container
    /\ \E t \in PromptTexts :
           Window([gui EXCEPT !.prompt_text_edit = t])

\* a click on one of the two source radio buttons, lines 503-525
on_source_changed ==
    /\ gui.alive
    /\ \E clicked \in {"builtin", "custom"} :
        LET g == [gui EXCEPT !.source = clicked, !.dialog = NoDialog]
            selected_voice == g.builtin_combo
            known == selected_voice \in DOMAIN g.voice_mapping
            voice_info == g.voice_mapping[selected_voice]
        IN  Window(
              IF clicked = "builtin"
              THEN [g EXCEPT !.builtin_container = TRUE, !.custom_container = FALSE,
                             !.prompt_text_edit =
                                 IF selected_voice # "" /\ known /\ voice_info.txt # <<>>
                                 THEN voice_info.txt ELSE @,
                             !.prompt_file_edit =
                                 IF selected_voice # "" /\ known
                                 THEN File("AudioSamples", voice_info.wav) ELSE @]
              ELSE [g EXCEPT !.builtin_container = FALSE, !.custom_container = TRUE,
                             !.prompt_file_edit = File("", "")])

\* a click on one of the three mode radio buttons, lines 682-693
on_mode_changed ==
    /\ gui.alive
    /\ \E button \in Modes :
           Window([gui EXCEPT !.mode = button, !.dialog = NoDialog,
                              !.prompt_text_container = (button = "zero_shot"),
                              !.instruct_text_container = (button = "instruct")])

\* the synthesize button, lines 527-598
start_synthesis ==
    /\ gui.alive /\ gui.synthesize_btn
    /\ Len(threads) < MaxRuns
    /\ \E text_edit \in GuiTexts, instruct_text_edit \in InstructTexts,
          file_exists \in BOOLEAN, aborts \in BOOLEAN :
        LET txt == strip(text_edit)
            \* line 538: "self.builtin_radio.isChecked" is the method, always true
            builtin == TRUE
            selected_voice == gui.builtin_combo
            known == selected_voice \in DOMAIN gui.voice_mapping
            bound == IF builtin THEN known ELSE TRUE
            prompt_file == IF builtin
                           THEN SampleFile(gui.voice_mapping[selected_voice].wav)
                           ELSE gui.prompt_file_edit
            prompt_text == strip(gui.prompt_text_edit)
            instruct_text == strip(instruct_text_edit)
            warn(msg) == Window([gui EXCEPT !.dialog = MessageBox("warning", msg)])
        IN  IF ~gui.model_loaded THEN warn("load the model")
            ELSE IF txt = <<>> THEN warn("no text")
            ELSE IF ~bound THEN Window(Unhandled(gui, aborts))
            ELSE IF Falsy(prompt_file) THEN warn("no reference audio")
            ELSE IF ~file_exists THEN warn("reference audio missing")
            ELSE IF gui.mode = "zero_shot" /\ prompt_text = <<>> THEN warn("no transcript")
            ELSE IF gui.mode = "instruct" /\ instruct_text = <<>> THEN warn("no instruction")
            ELSE IF gui.mode \notin Modes THEN warn("no mode")
            ELSE /\ gui' = [gui EXCEPT !.synthesize_btn = FALSE, !.dialog = NoDialog,
                                       !.synthesis_thread = Len(threads) + 1]
                 /\ threads' = Append(Collect(threads, Len(threads) + 1),
                        [SynthesisThread(gui.model, gui.mode, txt, prompt_file,
                                         prompt_text, instruct_text, output_dir)
                            EXCEPT !.receiver = TRUE])
                 /\ UNCHANGED <<seg_vars, queue, fs, clock>>

\* the slots of the worker's terminal signals, run when the signal is delivered
show_error ==
    /\ gui.alive /\ queue # <<>> /\ Head(queue).sig = "error"
    /\ gui' = ShowError(gui, Head(queue).arg)
    /\ queue' = Tail(queue)
    /\ UNCHANGED <<seg_vars, threads, fs, clock>>

synthesis_finished ==
    /\ gui.alive /\ queue # <<>> /\ Head(queue).sig = "finished"
    /\ gui' = SynthesisFinished(gui, Head(queue).arg, fs)
    /\ queue' = Tail(queue)
    /\ UNCHANGED <<seg_vars, threads, fs, clock>>

\* the play button, lines 620-633
play_audio ==
    /\ gui.alive /\ gui.play_btn
    /\ Window(PlayAudio([gui EXCEPT !.dialog = NoDialog], fs))

\* the preview button of the built-in voices, lines 635-655
preview_builtin_voice ==
    /\ gui.alive /\ gui.builtin_container
    /\ \E file_exists \in BOOLEAN :
        LET g == [gui EXCEPT !.dialog = NoDialog]
            selected_voice == g.builtin_combo
        IN  Window(
              IF selected_voice = "" THEN g
              ELSE IF selected_voice \notin DOMAIN g.voice_mapping
              THEN [g EXCEPT !.dialog = MessageBox("warning", "no such voice")]
              ELSE IF file_exists
              THEN PlayMedia(g, SampleMedia(SampleFile(g.voice_mapping[selected_voice].wav)))
              ELSE [g EXCEPT !.dialog = MessageBox("warning", "sample missing")])

\* the stop button, lines 657-662
stop_audio ==
    /\ gui.alive /\ gui.stop_btn
    /\ Window([SetState([gui EXCEPT !.dialog = NoDialog], "stopped")
                  EXCEPT !.play_btn = TRUE, !.stop_btn = FALSE])

\* the media ends: the player stops by itself, lines 664-669
player_state_changed ==
    /\ gui.alive /\ gui.player.state = "playing"
    /\ Window(SetState(gui, "stopped"))

----------------------------------------------------------------------------
(* The application: the window and its workers *)

default_model_path == <<"m">>

\* __init__, lines 194-201: initUI, then a first load_model
Init ==
    /\ text = <<>>
    /\ segments = <<>>
    /\ called = FALSE
    /\ threads = <<>>
    /\ queue = <<>>
    /\ fs = <<>>
    /\ clock = 0
    /\ \E voice_mapping \in VoiceDirs, loads \in BOOLEAN :
           gui = LoadModel(initUI(voice_mapping), default_model_path, loads)

\* the window with the reference form left as it is: the buttons, the slots,
\* the player and the workers
Next ==
    \/ load_model
    \/ start_synthesis
    \/ show_error
    \/ synthesis_finished
    \/ play_audio
    \/ stop_audio
    \/ player_state_changed
    \/ \E t \in 1..MaxRuns : RunBegin(t)
    \/ \E t \in 1..MaxRuns : RunCall(t)
    \/ \E t \in 1..MaxRuns : RunReturn(t)
    \/ \E t \in 1..MaxRuns : RunMerge(t)

Spec == Init /\ [][Next]_vars

\* the window once its model is set: the synthesize button, the slots, the
\* player and the workers.  Without the load button a worker is started only
\* after the one before it has reported, so that the runs follow one another;
\* the load button does nothing but enable the synthesize button, show a
\* message and set the model.
WorkNext ==
    \/ start_synthesis
    \/ show_error
    \/ synthesis_finished
    \/ play_audio
    \/ stop_audio
    \/ player_state_changed
    \/ \E t \in 1..MaxRuns : RunBegin(t)
    \/ \E t \in 1..MaxRuns : RunCall(t)
    \/ \E t \in 1..MaxRuns : RunReturn(t)
    \/ \E t \in 1..MaxRuns : RunMerge(t)

WorkSpec == Init /\ [][WorkNext]_vars

\* fair scheduling: a worker that can take its next step takes it (each call
\* it makes returns or raises) and the event loop delivers a queued signal to
\* its slot; nothing is asked of the user
Fairness ==
    /\ \A t \in 1..MaxRuns :
           /\ WF_vars(RunBegin(t))
           /\ WF_vars(RunCall(t))
           /\ WF_vars(RunReturn(t))
           /\ WF_vars(RunMerge(t))
    /\ WF_vars(show_error)
    /\ WF_vars(synthesis_finished)

FairSpec == WorkSpec /\ Fairness

\* the window with its reference form: the form, the synthesize button and
\* the preview; the worker that is started does not get to run
FormNext ==
    \/ select_prompt_file
    \/ select_voice
    \/ edit_prompt_text
    \/ on_source_changed
    \/ on_mode_changed
    \/ start_synthesis
    \/ preview_builtin_voice
    \/ player_state_changed

FormSpec == Init /\ [][FormNext]_vars

----------------------------------------------------------------------------
(* Properties of the window and its workers, checked under Spec *)

\* the workers whose run has started and not ended
Running == {t \in DOMAIN threads : threads[t].pc # "done"}

\* C9: at most one synthesis worker is running at any time.
C9_OneWorker == Cardinality(Running) <= 1

\* no reference audio can be had from the form: the built-in list has no voice
\* and the custom path field is empty
NoReference ==
    /\ gui.builtin_combo \notin DOMAIN gui.voice_mapping
    /\ gui.prompt_file_edit.name = ""

\* C12 (as claimed): a click on the synthesize button while no model is
\* loaded or no reference audio is available shows a warning, starts no
\* thread and leaves the button enabled; and a thread is started only with a
\* non-blank text, a reference audio and the text its mode needs.
C12_WarnOnMissing ==
    [][start_synthesis =>
          /\ (~gui.model_loaded \/ NoReference) =>
                 /\ gui'.dialog.kind = "warning"
                 /\ threads' = threads
                 /\ gui'.synthesize_btn
                 /\ gui'.alive
          /\ threads' # threads =>
                 LET th == threads'[Len(threads')]
                 IN  /\ th.text # <<>>
                     /\ ~Falsy(th.prompt_file)
                     /\ th.mode = "zero_shot" => th.prompt_text # <<>>
                     /\ th.mode = "instruct" => th.instruct_text # <<>>]_vars

\* C16 (as claimed): no run writes to the path of a file that an earlier run
\* has written: a file, once written, is never written again.
C16_UniquePath ==
    [][\A path \in DOMAIN fs : path \in DOMAIN fs' /\ fs'[path] = fs[path]]_vars

\* C18: whenever the synthesize button is enabled a model is loaded
\* (model_loaded is true and model is not None), and a load_model that fails
\* leaves model, model_loaded and the synthesize button as they were.
C18_EnabledMeansLoaded ==
    /\ [](gui.synthesize_btn => gui.model_loaded /\ gui.model # NoModel)
    /\ [][(load_model /\ gui'.dialog = MessageBox("critical", "model failed")) =>
             /\ gui'.model = gui.model
             /\ gui'.model_loaded = gui.model_loaded
             /\ gui'.synthesize_btn = gui.synthesize_btn]_vars

\* a reload has failed after a first load that succeeded
C18_Witness ==
    /\ gui.dialog = MessageBox("critical", "model failed")
    /\ gui.model_loaded
    /\ gui.model = CosyVoice2
    /\ gui.synthesize_btn

\* C19: the slot show_error changes neither current_audio_path nor the play
\* and stop buttons nor the player, and current_audio_path changes only in
\* the slot synthesis_finished.
C19_ErrorKeepsResult ==
    [][/\ show_error =>
             /\ gui'.current_audio_path = gui.current_audio_path
             /\ gui'.play_btn = gui.play_btn
             /\ gui'.stop_btn = gui.stop_btn
             /\ gui'.player = gui.player
             /\ gui'.state_connected = gui.state_connected
       /\ gui'.current_audio_path # gui.current_audio_path => synthesis_finished]_vars

\* an error has been shown while there is a synthesized audio to play
C19_Witness ==
    /\ gui.dialog.kind = "critical"
    /\ gui.dialog.msg # "model failed"
    /\ gui.current_audio_path # NoPath
    /\ exists(fs, gui.current_audio_path)

\* C17: whenever the synthesize button is disabled while a worker it started
\* has not ended, the button is enabled again later.
C17_ButtonComesBack ==
    (~gui.synthesize_btn /\ Running # {}) ~> gui.synthesize_btn

\* the button is disabled and the worker is in an inference call
C17_Witness ==
    /\ ~gui.synthesize_btn
    /\ \E t \in Running : threads[t].pc = "infer"

\* C13 (as claimed): the thread is started with the reference audio of the
\* selected source: the path in the custom path field when the custom source
\* is selected and a path was entered, the sample file of the voice shown in
\* the built-in list when the built-in source is selected.
C13_SelectedReference ==
    [][(start_synthesis /\ threads' # threads) =>
          LET th == threads'[Len(threads')]
          IN  /\ (gui.source = "custom" /\ gui.prompt_file_edit.name # "") =>
                     th.prompt_file = gui.prompt_file_edit
              /\ gui.source = "builtin" =>
                     th.prompt_file = SampleFile(gui.voice_mapping[gui.builtin_combo].wav)]_vars

====
